---- MODULE Spec2Model ----
(***************************************************************************)
(* BrickByte backend: the share-trading handlers of backend/src/index.js   *)
(* (POST /api/properties/:id/buy and /sell) over the three store tables    *)
(* properties, user_shares and transactions.  Every `await supabase...`    *)
(* is one atomic store call; a handler is the sequence of its store calls  *)
(* and other requests may run between any two of them.                     *)
(***************************************************************************)
EXTENDS Integers, Sequences, FiniteSets, TLC

\* ---------------------------------------------------------------- bounds
NProcs == 2            \* requests handled in one run, served concurrently
NSeq == 3              \* requests handled in one run, served one at a time
NTrio == 3             \* requests handled in a run of three concurrent requests
NPair == 2             \* requests handled in a run over two listed properties
NResolve == 2          \* requests carrying a wallet address in one run
MaxCalls == 2          \* backend calls of the browser awaiting their response
NReadSeq == 2          \* buy/sell requests handled in a run that also serves reads
TotalShares == 2       \* total_shares of the listed property
MaxShares == 2         \* largest `shares` value a request body carries
Price == 10            \* price_per_share of the listed property

Users == {"u1", "u2"}
Props == {"p1"}                       \* rows of the properties table
PairProps == {"p1", "p2"}             \* rows of the properties table, two listed
ShareValues == (-1)..MaxShares        \* req.body.shares (no validation in the handler)
Wallets == {"w1", "w2"}               \* wallet addresses a request may carry
Routes == {"wallet-connect", "other"} \* POST /api/auth/wallet-connect, any other route
Kinds == {"BUY", "SELL"}

VARIABLES properties, user_shares, transactions, reqs,
          profiles, resolving,
          authUser, isLoading, cookies, calls, mounted, loggedOut

\* ids a request may name; p0 has no row
PropertyIds == DOMAIN properties \cup {"p0"}

\* the profiles table and the requests being resolved to a profile
identity == <<profiles, resolving>>

\* the browser: AuthProvider state, cookies, calls awaiting the backend
browser == <<authUser, isLoading, cookies, calls, mounted, loggedOut>>

vars == <<properties, user_shares, transactions, reqs, identity, browser>>

\* handler slots: slot p serves the p-th request received
Procs == DOMAIN reqs
db == <<properties, user_shares, transactions>>

\* ------------------------------------------------------- store primitives
\* supabase .select().eq(...).single(): exactly one row, otherwise the
\* error PGRST116 and no data.  data is a sequence of zero or one row.
SingleProperty(id) ==
  IF id \in DOMAIN properties
    THEN [error |-> "none", data |-> <<properties[id]>>]
    ELSE [error |-> "PGRST116", data |-> <<>>]

SingleUserShares(user, id) ==
  IF <<user, id>> \in DOMAIN user_shares
    THEN [error |-> "none", data |-> <<user_shares[<<user, id>>]>>]
    ELSE [error |-> "PGRST116", data |-> <<>>]

\* .upsert([...], {onConflict: 'user_id,property_id'})
UpsertUserShares(user, id, n) ==
  [k \in DOMAIN user_shares \cup {<<user, id>>} |->
     IF k = <<user, id>> THEN n ELSE user_shares[k]]

\* the update that prunes a holding row when its balance reaches zero
UpdateUserSharesPruning(user, id, n) ==
  [k \in (IF n = 0 THEN DOMAIN user_shares \ {<<user, id>>} ELSE DOMAIN user_shares) |->
     IF k = <<user, id>> THEN n ELSE user_shares[k]]

\* .update({shares}).eq('user_id', ..).eq('property_id', ..)
UpdateUserShares(user, id, n) ==
  [k \in DOMAIN user_shares |-> IF k = <<user, id>> THEN n ELSE user_shares[k]]

\* the update without its .eq('id', ..) filter
UpdateAvailableEveryRow(id, n) ==
  [k \in DOMAIN properties |-> [properties[k] EXCEPT !.available_shares = n]]

\* .update({available_shares}).eq('id', ..)
UpdateAvailable(id, n) ==
  [k \in DOMAIN properties |->
     IF k = id THEN [properties[k] EXCEPT !.available_shares = n] ELSE properties[k]]

\* created_at: new Date().toISOString() of an insert; a later insert reads a
\* later time
Now == Len(transactions) + 1

\* the insert with the type column fixed to BUY
InsertTransactionAlwaysBuy(id, user, type, n, price) ==
  Append(transactions,
         [property_id |-> id, user_id |-> user, type |-> "BUY",
          shares |-> n, price_per_share |-> price, created_at |-> Now])

\* the insert as an upsert that overwrites the latest row
InsertTransactionOverwriting(id, user, type, n, price) ==
  LET row == [property_id |-> id, user_id |-> user, type |-> type,
              shares |-> n, price_per_share |-> price, created_at |-> Now]
  IN IF transactions = <<>> THEN <<row>>
     ELSE [transactions EXCEPT ![Len(transactions)] = row]

\* .insert([{property_id, user_id, type, shares, price_per_share, created_at}])
InsertTransaction(id, user, type, n, price) ==
  Append(transactions,
         [property_id |-> id, user_id |-> user, type |-> type,
          shares |-> n, price_per_share |-> price, created_at |-> Now])

\* the rows ordered by created_at ascending
OrderByCreatedAtAsc(rows) ==
  LET RECURSIVE Asc(_)
      Asc(S) == IF S = {} THEN <<>>
                ELSE LET m == CHOOSE x \in S : \A y \in S : x.created_at <= y.created_at
                     IN <<m>> \o Asc(S \ {m})
  IN Asc(rows)

\* .order('created_at', { ascending: false })
OrderByCreatedAtDesc(rows) ==
  LET RECURSIVE Desc(_)
      Desc(S) == IF S = {} THEN <<>>
                 ELSE LET m == CHOOSE x \in S : \A y \in S : y.created_at <= x.created_at
                      IN <<m>> \o Desc(S \ {m})
  IN Desc(rows)

\* transactions .select('*, properties(...)').eq('user_id', user)
\*   .order('created_at', { ascending: false })
SelectTransactions(user) ==
  OrderByCreatedAtDesc(
    {transactions[j] : j \in {i \in DOMAIN transactions : transactions[i].user_id = user}})

\* user_shares .select('shares, property_id, properties:property_id(...)')
\*   .eq('user_id', user)
SelectUserShares(user) ==
  {[property_id |-> k[2], shares |-> user_shares[k],
    price_per_share |-> properties[k[2]].price_per_share,
    total_shares |-> properties[k[2]].total_shares] :
     k \in {x \in DOMAIN user_shares : x[1] = user}}

\* middleware/errorHandler: a thrown store error is answered as a server error
errorHandler(err) == 500

\* ------------------------------------------------------ handler conditions
\* the availability check made against total_shares
NotEnoughOfTotal(property, shares) == property.total_shares < shares

\* `property.available_shares < shares` (buy, line 300)
NotEnoughAvailable(property, shares) == property.available_shares < shares

\* the holding check without the comparison
InsufficientSharesNoCompare(userShares, shares) == userShares = <<>>

\* `!userShares || userShares.shares < shares` (sell, line 388)
InsufficientShares(userShares, shares) ==
  \/ userShares = <<>>
  \/ userShares[1] < shares

\* `(existingShares?.shares || 0) + shares` (buy, line 331)
newShares(existingShares, shares) ==
  (IF existingShares = <<>> THEN 0 ELSE existingShares[1]) + shares

\* `userShares.shares - shares` (sell, line 407)
newShareBalance(userShares, shares) == userShares[1] - shares

\* ------------------------------------------------------------ observation
\* shares held by user in property id (no row counts as 0)
Held(user, id) ==
  IF <<user, id>> \in DOMAIN user_shares THEN user_shares[<<user, id>>] ELSE 0

Avail(id) == IF id \in DOMAIN properties THEN properties[id].available_shares ELSE 0

RECURSIVE SumHeld(_, _)
SumHeld(keys, id) ==
  IF keys = {} THEN 0
  ELSE LET k == CHOOSE x \in keys : TRUE
       IN (IF k[2] = id THEN user_shares[k] ELSE 0) + SumHeld(keys \ {k}, id)

HoldingsSum(id) == SumHeld(DOMAIN user_shares, id)

\* ------------------------------------------------------------------ state
\* the middleware's locals before a request
IdleResolve ==
  [pc |-> "idle", route |-> "none", header |-> "none", body |-> "none",
   user |-> 0, answered |-> 0, status |-> 0]

IdleReq ==
  [pc |-> "idle", kind |-> "BUY", user |-> "u1", propertyId |-> "p1", shares |-> 0,
   property |-> <<>>, existingShares |-> <<>>, userShares |-> <<>>,
   status |-> 0, error |-> "none", writes |-> 0, holdings |-> {}, history |-> <<>>]

\* no profile yet, no request being resolved
IdentityInit ==
  /\ profiles = <<>>
  /\ resolving = [p \in 1..NResolve |-> IdleResolve]

\* a browser that has not loaded the page and holds no cookie
BrowserInit ==
  /\ authUser = "null"
  /\ isLoading = TRUE
  /\ cookies = [walletAddress |-> "none", token |-> "none"]
  /\ calls = {}
  /\ mounted = FALSE
  /\ loggedOut = FALSE

\* one listed property with all its shares available, no holdings, no history
InitStore ==
  /\ properties = [p \in Props |->
       [total_shares |-> TotalShares, available_shares |-> TotalShares,
        price_per_share |-> Price]]
  /\ user_shares = <<>>
  /\ transactions = <<>>
  /\ IdentityInit
  /\ BrowserInit

Init ==
  /\ InitStore
  /\ reqs = [p \in 1..NProcs |-> IdleReq]

SeqInit ==
  /\ InitStore
  /\ reqs = [p \in 1..NSeq |-> IdleReq]

\* two listed properties, each with all its shares available
PairInit ==
  /\ properties = [p \in PairProps |->
       [total_shares |-> TotalShares, available_shares |-> TotalShares,
        price_per_share |-> Price]]
  /\ user_shares = <<>>
  /\ transactions = <<>>
  /\ IdentityInit
  /\ BrowserInit
  /\ reqs = [p \in 1..NPair |-> IdleReq]

TrioInit ==
  /\ InitStore
  /\ reqs = [p \in 1..NTrio |-> IdleReq]

\* slot 0 serves the read requests, each answered in one store call
ReadInit ==
  /\ InitStore
  /\ reqs = [p \in 0..NReadSeq |-> IdleReq]

\* res.status(status).json(...) / next(error): the handler is finished
Answer(p, r, status, error) ==
  reqs' = [reqs EXCEPT ![p] = [r EXCEPT !.pc = "done", !.status = status, !.error = error]]

NoneInFlight(p) == \A q \in Procs \ {p} : reqs[q].pc \in {"idle", "done"}

\* ---------------------------------------------------------------- actions
\* a request arrives: const { shares } = req.body; propertyId = req.params.id;
\* req.user was attached by resolveUserByWallet
Request(kind, user, id, n) ==
  [IdleReq EXCEPT !.pc = "selectProperty", !.kind = kind, !.user = user,
                  !.propertyId = id, !.shares = n]

\* req.user: profiles are created on first contact, so the caller of the first
\* request is the first profile; later callers are that one or another
Callers(p) == IF p = 1 THEN {"u1"} ELSE Users

\* handler slots are taken in order
Arrives(p) ==
  /\ reqs[p].pc = "idle"
  /\ \A q \in 1..(p - 1) : reqs[q].pc # "idle"

\* buy: select the property, 404 if none, 400 if not enough shares available
BuySelectProperty(p) ==
  \E user \in Callers(p), id \in PropertyIds, n \in ShareValues :
  LET r == Request("BUY", user, id, n)
      res == SingleProperty(r.propertyId)
  IN /\ Arrives(p)
     /\ IF res.error # "none"
          THEN /\ Answer(p, r, errorHandler(res.error), res.error)
        ELSE IF res.data = <<>>
          THEN /\ Answer(p, r, 404, "Property not found")
        ELSE IF NotEnoughAvailable(res.data[1], r.shares)
          THEN /\ Answer(p, [r EXCEPT !.property = res.data], 400, "Not enough shares available")
        ELSE /\ reqs' = [reqs EXCEPT ![p] = [r EXCEPT !.pc = "selectShares", !.property = res.data]]
     /\ UNCHANGED <<properties, user_shares, transactions, identity, browser>>

\* buy: select the caller's user_shares row; "not found" is tolerated
BuySelectShares(p) ==
  LET r == reqs[p]
      res == SingleUserShares(r.user, r.propertyId)
  IN /\ r.pc = "selectShares"
     /\ r.kind = "BUY"
     /\ IF res.error # "none" /\ res.error # "PGRST116"
          THEN /\ Answer(p, r, errorHandler(res.error), res.error)
          ELSE /\ reqs' = [reqs EXCEPT ![p] = [r EXCEPT !.pc = "insertTransaction",
                                                        !.existingShares = res.data]]
     /\ UNCHANGED <<properties, user_shares, transactions, identity, browser>>

\* buy: record the transaction
BuyInsertTransaction(p) ==
  LET r == reqs[p]
  IN /\ r.pc = "insertTransaction"
     /\ r.kind = "BUY"
     /\ transactions' = InsertTransaction(r.propertyId, r.user, "BUY", r.shares,
                                          r.property[1].price_per_share)
     /\ reqs' = [reqs EXCEPT ![p] = [r EXCEPT !.pc = "writeShares", !.writes = @ + 1]]
     /\ UNCHANGED <<properties, user_shares, identity, browser>>

\* buy: upsert the user's share balance
BuyUpsertShares(p) ==
  LET r == reqs[p]
  IN /\ r.pc = "writeShares"
     /\ r.kind = "BUY"
     /\ user_shares' = UpsertUserShares(r.user, r.propertyId,
                                        newShares(r.existingShares, r.shares))
     /\ reqs' = [reqs EXCEPT ![p] = [r EXCEPT !.pc = "updateProperty", !.writes = @ + 1]]
     /\ UNCHANGED <<properties, transactions, identity, browser>>

\* buy: update the property's available shares from the value read at the start
BuyUpdateProperty(p) ==
  LET r == reqs[p]
      done == [r EXCEPT !.writes = @ + 1]
  IN /\ r.pc = "updateProperty"
     /\ r.kind = "BUY"
     /\ properties' = UpdateAvailable(r.propertyId, r.property[1].available_shares - r.shares)
     /\ Answer(p, done, 201, "none")
     /\ UNCHANGED <<user_shares, transactions, identity, browser>>

\* sell: select the property, 404 if none
SellSelectProperty(p) ==
  \E user \in Callers(p), id \in PropertyIds, n \in ShareValues :
  LET r == Request("SELL", user, id, n)
      res == SingleProperty(r.propertyId)
  IN /\ Arrives(p)
     /\ IF res.error # "none"
          THEN /\ Answer(p, r, errorHandler(res.error), res.error)
        ELSE IF res.data = <<>>
          THEN /\ Answer(p, r, 404, "Property not found")
        ELSE /\ reqs' = [reqs EXCEPT ![p] = [r EXCEPT !.pc = "selectShares", !.property = res.data]]
     /\ UNCHANGED <<properties, user_shares, transactions, identity, browser>>

\* sell: select the caller's user_shares row, 400 if it holds too few shares
SellSelectShares(p) ==
  LET r == reqs[p]
      res == SingleUserShares(r.user, r.propertyId)
  IN /\ r.pc = "selectShares"
     /\ r.kind = "SELL"
     /\ IF res.error # "none"
          THEN /\ Answer(p, r, errorHandler(res.error), res.error)
        ELSE IF InsufficientShares(res.data, r.shares)
          THEN /\ Answer(p, [r EXCEPT !.userShares = res.data], 400, "Insufficient shares")
        ELSE /\ reqs' = [reqs EXCEPT ![p] = [r EXCEPT !.pc = "insertTransaction",
                                                      !.userShares = res.data]]
     /\ UNCHANGED <<properties, user_shares, transactions, identity, browser>>

\* sell: record the transaction
SellInsertTransaction(p) ==
  LET r == reqs[p]
  IN /\ r.pc = "insertTransaction"
     /\ r.kind = "SELL"
     /\ transactions' = InsertTransaction(r.propertyId, r.user, "SELL", r.shares,
                                          r.property[1].price_per_share)
     /\ reqs' = [reqs EXCEPT ![p] = [r EXCEPT !.pc = "writeShares", !.writes = @ + 1]]
     /\ UNCHANGED <<properties, user_shares, identity, browser>>

\* sell: update the user's share balance
SellUpdateShares(p) ==
  LET r == reqs[p]
  IN /\ r.pc = "writeShares"
     /\ r.kind = "SELL"
     /\ user_shares' = UpdateUserShares(r.user, r.propertyId,
                                        newShareBalance(r.userShares, r.shares))
     /\ reqs' = [reqs EXCEPT ![p] = [r EXCEPT !.pc = "updateProperty", !.writes = @ + 1]]
     /\ UNCHANGED <<properties, transactions, identity, browser>>

\* sell: update the property's available shares from the value read at the start
SellUpdateProperty(p) ==
  LET r == reqs[p]
      done == [r EXCEPT !.writes = @ + 1]
  IN /\ r.pc = "updateProperty"
     /\ r.kind = "SELL"
     /\ properties' = UpdateAvailable(r.propertyId, r.property[1].available_shares + r.shares)
     /\ Answer(p, done, 200, "none")
     /\ UNCHANGED <<user_shares, transactions, identity, browser>>

\* requests are served concurrently: any handler may take the next store call
Next ==
  \/ \E p \in Procs : BuySelectProperty(p)
  \/ \E p \in Procs : SellSelectProperty(p)
  \/ \E p \in Procs : BuySelectShares(p)
  \/ \E p \in Procs : BuyInsertTransaction(p)
  \/ \E p \in Procs : BuyUpsertShares(p)
  \/ \E p \in Procs : BuyUpdateProperty(p)
  \/ \E p \in Procs : SellSelectShares(p)
  \/ \E p \in Procs : SellInsertTransaction(p)
  \/ \E p \in Procs : SellUpdateShares(p)
  \/ \E p \in Procs : SellUpdateProperty(p)

Spec == Init /\ [][Next]_vars

\* the same handlers with one more request in the run, so that two concurrent
\* requests can meet a holding that an earlier one created
TrioSpec == TrioInit /\ [][Next]_vars

\* the same handlers over two listed properties
PairSpec == PairInit /\ [][Next]_vars

\* requests are served one at a time: a request arrives only when none is in flight
SeqNext ==
  \/ \E p \in Procs : NoneInFlight(p) /\ BuySelectProperty(p)
  \/ \E p \in Procs : NoneInFlight(p) /\ SellSelectProperty(p)
  \/ \E p \in Procs : BuySelectShares(p)
  \/ \E p \in Procs : BuyInsertTransaction(p)
  \/ \E p \in Procs : BuyUpsertShares(p)
  \/ \E p \in Procs : BuyUpdateProperty(p)
  \/ \E p \in Procs : SellSelectShares(p)
  \/ \E p \in Procs : SellInsertTransaction(p)
  \/ \E p \in Procs : SellUpdateShares(p)
  \/ \E p \in Procs : SellUpdateProperty(p)

SeqSpec == SeqInit /\ [][SeqNext]_vars

\* the property lookup of an arriving buy or sell returns a store error:
\* `if (propertyError) throw propertyError`
SelectPropertyFails(p) ==
  \E kind \in Kinds, user \in Callers(p), id \in PropertyIds, n \in ShareValues :
    /\ Arrives(p)
    /\ Answer(p, Request(kind, user, id, n), errorHandler("store"), "store")
    /\ UNCHANGED <<properties, user_shares, transactions, identity, browser>>

\* a later store call of a buy or sell returns an error and changes nothing:
\* `if (sharesError) throw`, `if (transactionError) throw`, `if (shareError)
\* throw`, `if (updateError) throw`; the catch hands it to next(error)
StoreCallFails(p) ==
  /\ reqs[p].pc \in {"selectShares", "insertTransaction", "writeShares", "updateProperty"}
  /\ Answer(p, reqs[p], errorHandler("store"), "store")
  /\ UNCHANGED <<properties, user_shares, transactions, identity, browser>>

\* requests are served concurrently and any store call may fail
FailNext ==
  \/ \E p \in Procs : SelectPropertyFails(p)
  \/ \E p \in Procs : StoreCallFails(p)
  \/ \E p \in Procs : BuySelectProperty(p)
  \/ \E p \in Procs : SellSelectProperty(p)
  \/ \E p \in Procs : BuySelectShares(p)
  \/ \E p \in Procs : BuyInsertTransaction(p)
  \/ \E p \in Procs : BuyUpsertShares(p)
  \/ \E p \in Procs : BuyUpdateProperty(p)
  \/ \E p \in Procs : SellSelectShares(p)
  \/ \E p \in Procs : SellInsertTransaction(p)
  \/ \E p \in Procs : SellUpdateShares(p)
  \/ \E p \in Procs : SellUpdateProperty(p)

FailSpec == Init /\ [][FailNext]_vars

\* the holdings read that first creates an empty holding row for the caller
GetUserSharesCreating(p) ==
  \E user \in Users :
    /\ reqs' = [reqs EXCEPT ![p] =
         [IdleReq EXCEPT !.pc = "done", !.kind = "SHARES", !.user = user,
                         !.status = 200, !.holdings = SelectUserShares(user)]]
    /\ user_shares' = [k \in DOMAIN user_shares \cup {<<user, "p1">>} |->
                         IF k \in DOMAIN user_shares THEN user_shares[k] ELSE 0]
    /\ UNCHANGED <<properties, transactions, identity, browser>>

\* GET /api/user/shares: the caller's holdings, joined with their properties
GetUserShares(p) ==
  \E user \in Users :
    /\ reqs' = [reqs EXCEPT ![p] =
         [IdleReq EXCEPT !.pc = "done", !.kind = "SHARES", !.user = user,
                         !.status = 200, !.holdings = SelectUserShares(user)]]
    /\ UNCHANGED <<properties, user_shares, transactions, identity, browser>>

\* GET /api/transactions: the caller's transactions, newest first
GetTransactions(p) ==
  \E user \in Users :
    /\ reqs' = [reqs EXCEPT ![p] =
         [IdleReq EXCEPT !.pc = "done", !.kind = "TRANSACTIONS", !.user = user,
                         !.status = 200, !.history = SelectTransactions(user)]]
    /\ UNCHANGED <<properties, user_shares, transactions, identity, browser>>

\* buy and sell requests are served one at a time; reads are served at any
\* moment, also between the store calls of the buy or sell in flight
ReadNext ==
  \/ GetUserShares(0)
  \/ GetTransactions(0)
  \/ \E p \in Procs \ {0} : NoneInFlight(p) /\ BuySelectProperty(p)
  \/ \E p \in Procs \ {0} : NoneInFlight(p) /\ SellSelectProperty(p)
  \/ \E p \in Procs \ {0} : BuySelectShares(p)
  \/ \E p \in Procs \ {0} : BuyInsertTransaction(p)
  \/ \E p \in Procs \ {0} : BuyUpsertShares(p)
  \/ \E p \in Procs \ {0} : BuyUpdateProperty(p)
  \/ \E p \in Procs \ {0} : SellSelectShares(p)
  \/ \E p \in Procs \ {0} : SellInsertTransaction(p)
  \/ \E p \in Procs \ {0} : SellUpdateShares(p)
  \/ \E p \in Procs \ {0} : SellUpdateProperty(p)

ReadSpec == ReadInit /\ [][ReadNext]_vars

\* ------------------------------------------------------------- properties
Answered(p) == reqs[p].pc = "done"
Succeeded(p) == Answered(p) /\ reqs[p].status \in {200, 201}
Received == {p \in Procs : reqs[p].pc # "idle"}

\* C1: for every property, available_shares plus the shares of all its
\* holdings equals total_shares, in every reachable state.
C1_SharesConserved ==
  \A id \in Props : Avail(id) + HoldingsSum(id) = properties[id].total_shares

\* C2: when exactly two Buys of the same property, each for more than half of
\* the shares available, have run and been answered, one succeeded, the other
\* was refused for lack of supply, and available_shares fell by the winner's shares.
C2_RaceOneWinner ==
  \A p, q \in Procs :
    ( /\ p # q
      /\ Received = {p, q}
      /\ Answered(p) /\ Answered(q)
      /\ reqs[p].kind = "BUY" /\ reqs[q].kind = "BUY"
      /\ reqs[p].propertyId \in Props /\ reqs[q].propertyId = reqs[p].propertyId
      /\ \A x \in {p, q} : reqs[x].shares <= TotalShares /\ 2 * reqs[x].shares > TotalShares )
    => \E w, l \in {p, q} :
         /\ w # l
         /\ reqs[w].status = 201
         /\ reqs[l].status = 400 /\ reqs[l].error = "Not enough shares available"
         /\ Avail(reqs[p].propertyId) = TotalShares - reqs[w].shares

\* C3: when N Buys of one property, each for available_shares/N shares, have
\* run and been answered, all succeeded, available_shares is 0, the holdings
\* sum to the shares that were available and there are N transactions.
C3_SplitAllSucceed ==
  \A id \in Props : \A n \in 1..MaxShares :
    LET N == Cardinality(Received)
    IN ( /\ N >= 2
         /\ N * n = TotalShares
         /\ \A p \in Received :
              /\ Answered(p)
              /\ reqs[p].kind = "BUY" /\ reqs[p].propertyId = id /\ reqs[p].shares = n )
       => /\ \A p \in Received : reqs[p].status = 201
          /\ Avail(id) = 0
          /\ HoldingsSum(id) = TotalShares
          /\ Len(transactions) = N

\* C4: for every property, 0 <= available_shares <= total_shares in every
\* reachable state; stated for the runs in which every request received
\* carried a positive share count.
C4_AvailableInRange ==
  (\A p \in Received : reqs[p].shares > 0)
  => \A id \in Props :
       /\ 0 <= properties[id].available_shares
       /\ properties[id].available_shares <= properties[id].total_shares

\* C5: a Buy that arrives asking for more shares than the property has
\* available is answered 400 "Not enough shares available", and the step that
\* serves it leaves properties, user_shares and transactions as they were.
C5_BuyRejectsOverSupply ==
  [][\A p \in Procs :
       ( /\ reqs[p].pc = "idle" /\ reqs'[p].pc # "idle"
         /\ reqs'[p].kind = "BUY"
         /\ reqs'[p].propertyId \in Props
         /\ reqs'[p].shares > properties[reqs'[p].propertyId].available_shares )
       => /\ reqs'[p].pc = "done"
          /\ reqs'[p].status = 400
          /\ reqs'[p].error = "Not enough shares available"
          /\ reqs'[p].writes = 0
          /\ UNCHANGED db]_vars

C5_Witness ==
  \E p \in Procs :
    /\ Answered(p) /\ reqs[p].kind = "BUY"
    /\ reqs[p].status = 400 /\ reqs[p].error = "Not enough shares available"
    /\ reqs[p].shares > Avail(reqs[p].propertyId)
    /\ reqs[p].shares <= TotalShares
    /\ transactions # <<>>

\* C6: a Sell whose shares exceed what the caller's holding row has when it is
\* read is answered 400 "Insufficient shares"; that step and the request's
\* earlier one leave properties, user_shares and transactions as they were.
C6_SellRejectsOverHolding ==
  [][\A p \in Procs :
       ( /\ reqs[p].pc = "selectShares" /\ reqs'[p].pc # "selectShares"
         /\ reqs[p].kind = "SELL"
         /\ <<reqs[p].user, reqs[p].propertyId>> \in DOMAIN user_shares
         /\ reqs[p].shares > user_shares[<<reqs[p].user, reqs[p].propertyId>>] )
       => /\ reqs'[p].pc = "done"
          /\ reqs'[p].status = 400
          /\ reqs'[p].error = "Insufficient shares"
          /\ reqs'[p].writes = 0
          /\ UNCHANGED db]_vars

C6_Witness ==
  \E p \in Procs :
    /\ Answered(p) /\ reqs[p].kind = "SELL"
    /\ reqs[p].status = 400 /\ reqs[p].error = "Insufficient shares"
    /\ reqs[p].userShares # <<>>
    /\ reqs[p].userShares[1] > 0
    /\ reqs[p].shares > reqs[p].userShares[1]

\* the holding the Buy found when it read user_shares (no row counts as 0)
PriorHeld(r) == IF r.existingShares = <<>> THEN 0 ELSE r.existingShares[1]

\* request p + 1 is the latest one received
Latest(p) == \A q \in Procs : q > p => reqs[q].pc = "idle"

\* C7: with requests served one at a time, a successful Buy of a shares
\* followed by the same user's Sell of b shares of the same property, with
\* 0 < b <= a, leaves the holding at its prior value plus a - b and
\* available_shares at its original value minus (a - b).
C7_BuyThenSell ==
  \A p \in Procs : (p + 1) \in Procs =>
    LET buy == reqs[p]
        sell == reqs[p + 1]
    IN ( /\ buy.pc = "done" /\ buy.kind = "BUY" /\ buy.status = 201
         /\ sell.pc = "done" /\ sell.kind = "SELL"
         /\ sell.user = buy.user /\ sell.propertyId = buy.propertyId
         /\ 0 < sell.shares /\ sell.shares <= buy.shares
         /\ Latest(p + 1) )
       => /\ sell.status = 200
          /\ Held(buy.user, buy.propertyId) = PriorHeld(buy) + buy.shares - sell.shares
          /\ Avail(buy.propertyId)
               = buy.property[1].available_shares - (buy.shares - sell.shares)

\* request p has made its transactions insert
Recorded(p) ==
  \/ reqs[p].pc \in {"writeShares", "updateProperty"}
  \/ Succeeded(p)

\* C8: every request that got as far as reporting success has exactly one
\* transaction row of its kind, property, user and share count, priced at the
\* property's price_per_share, and the requests that were refused have none:
\* the rows are in one-to-one correspondence with the requests past the insert.
C8_OneTransactionPerSuccess ==
  /\ Len(transactions) = Cardinality({p \in Procs : Recorded(p)})
  /\ \A kind \in Kinds, user \in Users, id \in Props, n \in ShareValues :
       Cardinality({i \in DOMAIN transactions :
                      /\ transactions[i].property_id = id
                      /\ transactions[i].user_id = user
                      /\ transactions[i].type = kind
                      /\ transactions[i].shares = n
                      /\ transactions[i].price_per_share = properties[id].price_per_share})
         = Cardinality({p \in Procs :
                          /\ Recorded(p)
                          /\ reqs[p].kind = kind /\ reqs[p].user = user
                          /\ reqs[p].propertyId = id /\ reqs[p].shares = n})

C8_Witness ==
  /\ \E p \in Procs : Succeeded(p) /\ reqs[p].kind = "SELL" /\ reqs[p].shares > 0
  /\ \E p \in Procs : Succeeded(p) /\ reqs[p].kind = "BUY" /\ reqs[p].shares > 0
  /\ Len(transactions) = 2

\* C9: a Buy or Sell of an existing property whose shares value is zero or
\* negative makes no store write and never reports success.
C9_InvalidSharesRejected ==
  \A p \in Procs :
    (reqs[p].pc # "idle" /\ reqs[p].propertyId \in Props /\ reqs[p].shares <= 0)
    => /\ reqs[p].writes = 0
       /\ ~Succeeded(p)

\* C10: a Buy or Sell naming a property id that has no row is answered
\* 404 "Property not found" and has made no store write.
C10_MissingPropertyNotFound ==
  \A p \in Procs :
    (Answered(p) /\ reqs[p].propertyId \notin Props)
    => /\ reqs[p].status = 404
       /\ reqs[p].error = "Property not found"
       /\ reqs[p].writes = 0

\* C11: a Sell whose caller has no user_shares row for the property when the
\* row is looked up is answered 400 "Insufficient shares" and writes nothing.
C11_SellWithoutHolding ==
  [][\A p \in Procs :
       ( /\ reqs[p].pc = "selectShares" /\ reqs'[p].pc # "selectShares"
         /\ reqs[p].kind = "SELL"
         /\ <<reqs[p].user, reqs[p].propertyId>> \notin DOMAIN user_shares )
       => /\ reqs'[p].pc = "done"
          /\ reqs'[p].status = 400
          /\ reqs'[p].error = "Insufficient shares"
          /\ UNCHANGED db]_vars

\* C18: every transaction row that exists is still there, with the same
\* field values, after every step.
C18_AppendOnly ==
  [][\A i \in DOMAIN transactions :
       /\ i \in DOMAIN transactions'
       /\ transactions'[i] = transactions[i]]_vars

C18_Witness ==
  /\ Len(transactions) >= 2
  /\ \E i, j \in DOMAIN transactions : transactions[i].type # transactions[j].type

\* C19: every holding row has shares >= 0 in every reachable state.
C19_HoldingsNonNegative ==
  \A k \in DOMAIN user_shares : user_shares[k] >= 0

\* the user_shares key of request p
KeyOf(p) == <<reqs[p].user, reqs[p].propertyId>>

\* C20: a holding row appears only through the upsert of a Buy for its
\* (user, property) pair and no step removes one; a Buy's upsert on a pair that
\* has a row keeps the set of rows as it is; a Sell of the whole balance it
\* read leaves the row in place with shares 0.
C20_HoldingLifecycle ==
  [][/\ DOMAIN user_shares \subseteq DOMAIN user_shares'
     /\ \A k \in DOMAIN user_shares' \ DOMAIN user_shares :
          \E p \in Procs :
            /\ reqs[p].pc = "writeShares" /\ reqs'[p].pc = "updateProperty"
            /\ reqs[p].kind = "BUY"
            /\ k = KeyOf(p)
     /\ \A p \in Procs :
          ( reqs[p].pc = "writeShares" /\ reqs'[p].pc = "updateProperty"
            /\ reqs[p].kind = "BUY" )
          => DOMAIN user_shares' = DOMAIN user_shares \cup {KeyOf(p)}
     /\ \A p \in Procs :
          ( reqs[p].pc = "writeShares" /\ reqs'[p].pc = "updateProperty"
            /\ reqs[p].kind = "SELL"
            /\ reqs[p].shares = reqs[p].userShares[1] )
          => /\ KeyOf(p) \in DOMAIN user_shares'
             /\ user_shares'[KeyOf(p)] = 0]_vars

C20_Witness ==
  \E p \in Procs :
    /\ Succeeded(p) /\ reqs[p].kind = "SELL"
    /\ reqs[p].shares > 0 /\ reqs[p].shares = reqs[p].userShares[1]
    /\ KeyOf(p) \in DOMAIN user_shares
    /\ user_shares[KeyOf(p)] = 0

\* a read request is answered in this step
ReadAnswered == reqs'[0] # reqs[0]

\* C13: a step that serves GET /api/user/shares or GET /api/transactions
\* leaves properties, user_shares and transactions as they were, whatever
\* buy or sell is in flight.
C13_ReadsDoNotMutate ==
  [][(0 \in Procs /\ ReadAnswered) => UNCHANGED db]_vars

C13_Witness ==
  /\ 0 \in Procs
  /\ reqs[0].kind = "SHARES" /\ reqs[0].holdings # {}
  /\ \E p \in Procs \ {0} : reqs[p].pc \in {"writeShares", "updateProperty"}

\* C14: the answer of GET /api/transactions holds each transaction of the
\* caller once, none of another user, in order of created_at descending.
C14_TransactionsOfCaller ==
  [][(0 \in Procs /\ ReadAnswered /\ reqs'[0].kind = "TRANSACTIONS") =>
       LET res == reqs'[0].history
           mine == {j \in DOMAIN transactions : transactions[j].user_id = reqs'[0].user}
       IN /\ \A i \in DOMAIN res : res[i].user_id = reqs'[0].user
          /\ {res[i] : i \in DOMAIN res} = {transactions[j] : j \in mine}
          /\ Len(res) = Cardinality(mine)
          /\ \A i, j \in DOMAIN res : i < j => res[i].created_at >= res[j].created_at]_vars

C14_Witness ==
  /\ 0 \in Procs
  /\ reqs[0].kind = "TRANSACTIONS"
  /\ Len(reqs[0].history) >= 2
  /\ reqs[0].history[1].created_at > reqs[0].history[2].created_at

\* C12: a buy or sell that has been answered has made all three of its
\* writes (transaction, holding, available_shares) or none of them, also when
\* one of its store calls failed.
C12_AllOrNothing ==
  \A p \in Procs : Answered(p) => reqs[p].writes \in {0, 3}

\* the buy handler run from start to end on the store st with no other
\* request in between: the store it leaves and the status it answers
SerialBuy(st, r) ==
  LET id == r.propertyId
      key == <<r.user, id>>
      held == IF key \in DOMAIN st.user_shares THEN <<st.user_shares[key]>> ELSE <<>>
  IN IF id \notin DOMAIN st.properties
       THEN [st |-> st, status |-> errorHandler("PGRST116")]
     ELSE IF NotEnoughAvailable(st.properties[id], r.shares)
       THEN [st |-> st, status |-> 400]
     ELSE [st |-> [properties |->
                     [st.properties EXCEPT ![id].available_shares = @ - r.shares],
                   user_shares |->
                     [k \in DOMAIN st.user_shares \cup {key} |->
                        IF k = key THEN newShares(held, r.shares) ELSE st.user_shares[k]],
                   ntransactions |-> st.ntransactions + 1],
           status |-> 201]

\* the sell handler run from start to end on the store st
SerialSell(st, r) ==
  LET id == r.propertyId
      key == <<r.user, id>>
  IN IF id \notin DOMAIN st.properties \/ key \notin DOMAIN st.user_shares
       THEN [st |-> st, status |-> errorHandler("PGRST116")]
     ELSE IF InsufficientShares(<<st.user_shares[key]>>, r.shares)
       THEN [st |-> st, status |-> 400]
     ELSE [st |-> [properties |->
                     [st.properties EXCEPT ![id].available_shares = @ + r.shares],
                   user_shares |->
                     [st.user_shares EXCEPT
                        ![key] = newShareBalance(<<st.user_shares[key]>>, r.shares)],
                   ntransactions |-> st.ntransactions + 1],
           status |-> 200]

\* the requests of the slots order[i..], run one after the other from st,
\* answer as the requests did and leave the store as it is now
RECURSIVE SerialRunMatches(_, _, _)
SerialRunMatches(st, order, i) ==
  IF i > Len(order)
    THEN /\ st.properties = properties
         /\ st.user_shares = user_shares
         /\ st.ntransactions = Len(transactions)
    ELSE LET r == reqs[order[i]]
             out == IF r.kind = "BUY" THEN SerialBuy(st, r) ELSE SerialSell(st, r)
         IN /\ out.status = r.status
            /\ SerialRunMatches(out.st, order, i + 1)

\* the store before any request
FreshStore ==
  [properties |-> [p \in DOMAIN properties |->
                     [properties[p] EXCEPT !.available_shares = properties[p].total_shares]],
   user_shares |-> <<>>,
   ntransactions |-> 0]

\* the ways to put the requests received in a row
Orders ==
  {o \in [1..Cardinality(Received) -> Received] :
     \A i, j \in DOMAIN o : i # j => o[i] # o[j]}

\* C15: whenever every request received has been answered, the properties,
\* the holdings, the number of transactions and every request's status are
\* those of running the same requests one at a time in some order; stated for
\* the runs in which every request carried a positive share count.
C15_Serializable ==
  (\A p \in Received : Answered(p) /\ reqs[p].shares > 0)
  => \E o \in Orders : SerialRunMatches(FreshStore, o, 1)

\* the shares of the Sells among the slots S that succeeded
RECURSIVE SoldBy(_)
SoldBy(S) ==
  IF S = {} THEN 0
  ELSE LET p == CHOOSE x \in S : TRUE
       IN (IF reqs[p].kind = "SELL" /\ reqs[p].status = 200 THEN reqs[p].shares ELSE 0)
          + SoldBy(S \ {p})

\* C16: after a Buy of a shares by a user and two Sells of positive share
\* counts by the same user on the same property, all answered, the Sells that
\* succeeded sold at most a shares together and the holding is a minus what
\* they sold.
C16_SellsWithinHolding ==
  \A b \in Procs :
    LET sells == Procs \ {b}
    IN ( /\ Cardinality(sells) = 2
         /\ \A p \in Procs : Answered(p)
         /\ reqs[b].kind = "BUY" /\ reqs[b].status = 201 /\ reqs[b].shares > 0
         /\ \A p \in sells :
              /\ reqs[p].kind = "SELL" /\ reqs[p].shares > 0
              /\ reqs[p].user = reqs[b].user /\ reqs[p].propertyId = reqs[b].propertyId )
       => /\ SoldBy(sells) <= reqs[b].shares
          /\ Held(reqs[b].user, reqs[b].propertyId) = reqs[b].shares - SoldBy(sells)

\* the request answered alone on its property has the outcome of running on
\* a fresh store
AloneOnProperty(p) ==
  LET r == reqs[p]
      id == r.propertyId
      out == IF r.kind = "BUY" THEN SerialBuy(FreshStore, r) ELSE SerialSell(FreshStore, r)
  IN ( /\ \A q \in Received : Answered(q)
       /\ p \in Received
       /\ id \in DOMAIN properties
       /\ \A q \in Received \ {p} : reqs[q].propertyId # id )
     => /\ r.status = out.status
        /\ properties[id] = out.st.properties[id]
        /\ \A u \in Users :
             /\ (<<u, id>> \in DOMAIN user_shares) = (<<u, id>> \in DOMAIN out.st.user_shares)
             /\ <<u, id>> \in DOMAIN user_shares
                  => user_shares[<<u, id>>] = out.st.user_shares[<<u, id>>]
        /\ LET rows == {i \in DOMAIN transactions : transactions[i].property_id = id}
           IN /\ Cardinality(rows) = out.st.ntransactions
              /\ \A i \in rows :
                   /\ transactions[i].user_id = r.user
                   /\ transactions[i].type = r.kind
                   /\ transactions[i].shares = r.shares

\* a step of the request in slot p touches only the row of its property,
\* the holding of its (user, property) pair and a new transaction of that pair
OwnRowsOnly(p) ==
  LET id == reqs'[p].propertyId
      key == <<reqs'[p].user, id>>
  IN /\ \A q \in DOMAIN properties : q # id => properties'[q] = properties[q]
     /\ DOMAIN properties' = DOMAIN properties
     /\ DOMAIN user_shares' \subseteq DOMAIN user_shares \cup {key}
     /\ \A k \in DOMAIN user_shares :
          k # key => k \in DOMAIN user_shares' /\ user_shares'[k] = user_shares[k]
     /\ \A i \in DOMAIN transactions :
          i \in DOMAIN transactions' /\ transactions'[i] = transactions[i]
     /\ \A i \in DOMAIN transactions' \ DOMAIN transactions :
          transactions'[i].property_id = id /\ transactions'[i].user_id = reqs'[p].user

\* C17: every step of a buy or sell leaves the rows of the other
\* properties, the holdings of other (user, property) pairs and the existing
\* transactions as they were, and a request that is the only one on its
\* property ends as if the requests on other properties had not run.
C17_Independent ==
  /\ [](\A p \in Procs : AloneOnProperty(p))
  /\ [][\A p \in Procs : reqs'[p] # reqs[p] => OwnRowsOnly(p)]_vars

C17_Witness ==
  \E p, q \in Procs :
    /\ reqs[p].propertyId = "p1" /\ reqs[q].propertyId = "p2"
    /\ reqs[p].user # reqs[q].user
    /\ Succeeded(p) /\ Succeeded(q)
    /\ reqs[p].shares > 0 /\ reqs[q].shares > 0
    /\ Avail("p1") = TotalShares - reqs[p].shares
    /\ Avail("p2") = TotalShares - reqs[q].shares

\* ------------------------------------------------------ wallet resolution
\* profiles .select('*').eq('wallet_address', ..).single(): the row when
\* exactly one matches, the error PGRST116 when none or several do
SingleProfile(w) ==
  LET rows == {i \in DOMAIN profiles : profiles[i].wallet_address = w}
  IN IF Cardinality(rows) = 1
       THEN [error |-> "none", data |-> <<profiles[CHOOSE i \in rows : TRUE]>>]
       ELSE [error |-> "PGRST116", data |-> <<>>]

\* profiles.wallet_address is unique: an insert of an address already there fails
WalletTaken(w) == \E i \in DOMAIN profiles : profiles[i].wallet_address = w

\* profiles .insert([{wallet_address}]).select().single()
InsertProfile(w) ==
  IF WalletTaken(w)
    THEN [error |-> "23505", data |-> <<>>, profiles |-> profiles]
    ELSE LET row == [id |-> Len(profiles) + 1, wallet_address |-> w]
         IN [error |-> "none", data |-> <<row>>, profiles |-> Append(profiles, row)]

\* const wallet = req.headers['x-wallet-address'] || req.body?.walletAddress
WalletOf(r) == IF r.header # "none" THEN r.header ELSE r.body

\* next(): the route handler runs; a route other than wallet-connect is done here
AfterMiddleware(p, r) ==
  resolving' = [resolving EXCEPT ![p] =
     IF r.route = "wallet-connect" THEN [r EXCEPT !.pc = "handlerSelect"]
     ELSE [r EXCEPT !.pc = "done", !.status = 200]]

\* slots are taken in order
ResolveArrives(p) ==
  /\ resolving[p].pc = "idle"
  /\ \A q \in 1..(p - 1) : resolving[q].pc # "idle"

\* resolveUserByWallet: look the wallet up; attach the profile when found
MiddlewareSelect(p) ==
  \E route \in Routes, header \in Wallets \cup {"none"}, body \in Wallets \cup {"none"} :
    /\ ResolveArrives(p)
    /\ route = "other" => header # "none" /\ body = "none"
    /\ route = "wallet-connect" => body # "none"
    /\ LET r == [IdleResolve EXCEPT !.route = route, !.header = header, !.body = body]
           res == SingleProfile(WalletOf(r))
       IN IF res.error = "PGRST116"
            THEN resolving' = [resolving EXCEPT ![p] = [r EXCEPT !.pc = "middlewareInsert"]]
            ELSE AfterMiddleware(p, [r EXCEPT !.user = res.data[1].id])
    /\ UNCHANGED <<properties, user_shares, transactions, reqs, profiles, browser>>

\* resolveUserByWallet: not found, create the profile; a failed insert goes to next(err)
MiddlewareInsert(p) ==
  /\ resolving[p].pc = "middlewareInsert"
  /\ LET r == resolving[p]
         res == InsertProfile(WalletOf(r))
     IN /\ profiles' = res.profiles
        /\ IF res.error # "none"
             THEN resolving' = [resolving EXCEPT ![p] =
                    [r EXCEPT !.pc = "done", !.status = errorHandler(res.error)]]
             ELSE AfterMiddleware(p, [r EXCEPT !.user = res.data[1].id])
  /\ UNCHANGED <<properties, user_shares, transactions, reqs, browser>>

\* wallet-connect: look the body's wallet up; answer the profile when found
WalletConnectSelect(p) ==
  /\ resolving[p].pc = "handlerSelect"
  /\ LET r == resolving[p]
         res == SingleProfile(r.body)
     IN resolving' = [resolving EXCEPT ![p] =
          IF res.error = "PGRST116" THEN [r EXCEPT !.pc = "handlerInsert"]
          ELSE [r EXCEPT !.pc = "done", !.status = 200, !.answered = res.data[1].id]]
  /\ UNCHANGED <<properties, user_shares, transactions, reqs, profiles, browser>>

\* wallet-connect: not found, create the profile and answer it
WalletConnectInsert(p) ==
  /\ resolving[p].pc = "handlerInsert"
  /\ LET r == resolving[p]
         res == InsertProfile(r.body)
     IN /\ profiles' = res.profiles
        /\ resolving' = [resolving EXCEPT ![p] =
             IF res.error # "none"
               THEN [r EXCEPT !.pc = "done", !.status = errorHandler(res.error)]
               ELSE [r EXCEPT !.pc = "done", !.status = 200, !.answered = res.data[1].id]]
  /\ UNCHANGED <<properties, user_shares, transactions, reqs, browser>>

Resolvers == DOMAIN resolving

ResolveNext ==
  \/ \E p \in Resolvers : MiddlewareSelect(p)
  \/ \E p \in Resolvers : MiddlewareInsert(p)
  \/ \E p \in Resolvers : WalletConnectSelect(p)
  \/ \E p \in Resolvers : WalletConnectInsert(p)

ResolveSpec == Init /\ [][ResolveNext]_vars

\* the id of the profile of a wallet address, 0 when it has none
ProfileId(w) ==
  IF WalletTaken(w) THEN profiles[CHOOSE i \in DOMAIN profiles : profiles[i].wallet_address = w].id
  ELSE 0

\* C21: a wallet address has at most one profile, and every finished
\* request that carried it, in the header or to wallet-connect, is attached to
\* that profile's id.
C21_FindOrCreate ==
  /\ \A w \in Wallets :
       Cardinality({i \in DOMAIN profiles : profiles[i].wallet_address = w}) <= 1
  /\ \A p \in Resolvers :
       resolving[p].pc = "done"
         => /\ resolving[p].user = ProfileId(WalletOf(resolving[p]))
            /\ resolving[p].user # 0
            /\ resolving[p].route = "wallet-connect"
                 => /\ resolving[p].answered = ProfileId(resolving[p].body)
                    /\ resolving[p].answered # 0

\* ------------------------------------------------- balances and history
\* shares bought minus shares sold in the transactions of the users in us on property id
RECURSIVE NetOf(_, _, _)
NetOf(n, us, id) ==
  IF n = 0 THEN 0
  ELSE LET t == transactions[n]
       IN (IF t.user_id \in us /\ t.property_id = id
             THEN (IF t.type = "BUY" THEN t.shares ELSE 0 - t.shares)
             ELSE 0) + NetOf(n - 1, us, id)

\* C22: when no buy or sell is in flight (and every request received
\* asked for a positive number of shares), each holding equals the shares of the
\* pair's BUY transactions minus those of its SELL transactions, and
\* total_shares - available_shares equals that difference over all users.
C22_BalancesFromHistory ==
  ( /\ \A p \in Procs : reqs[p].pc \in {"idle", "done"}
    /\ \A p \in Received : reqs[p].shares > 0 )
  => \A id \in DOMAIN properties :
       /\ \A u \in Users : Held(u, id) = NetOf(Len(transactions), {u}, id)
       /\ properties[id].total_shares - Avail(id) = NetOf(Len(transactions), Users, id)

\* ------------------------------------------------- frontend AuthProvider
\* api.post('/api/auth/wallet-connect', { walletAddress }) awaiting its response;
\* sinceLogout records whether logout had been called when the call was made
Call(op, w) == [op |-> op, walletAddress |-> w, sinceLogout |-> loggedOut]

\* AuthProvider mounts: useState(null), useState(true), then the effect reads
\* the walletAddress cookie and verifies it, or stops loading when there is none
Mount ==
  /\ ~mounted
  /\ mounted' = TRUE
  /\ authUser' = "null"
  /\ IF cookies.walletAddress # "none"
       THEN /\ Cardinality(calls) < MaxCalls
            /\ calls' = calls \cup {Call("verifyWallet", cookies.walletAddress)}
            /\ isLoading' = TRUE
       ELSE /\ calls' = calls
            /\ isLoading' = FALSE
  /\ UNCHANGED <<cookies, loggedOut>>
  /\ UNCHANGED <<properties, user_shares, transactions, reqs, identity>>

\* the page is left or reloaded: the component's state and its pending calls are gone
Unmount ==
  /\ mounted
  /\ mounted' = FALSE
  /\ authUser' = "null"
  /\ isLoading' = TRUE
  /\ calls' = {}
  /\ UNCHANGED <<cookies, loggedOut>>
  /\ UNCHANGED <<properties, user_shares, transactions, reqs, identity>>

\* verifyWallet: the backend answered with the profile
VerifyWalletOk(c) ==
  /\ c \in calls /\ c.op = "verifyWallet"
  /\ calls' = calls \ {c}
  /\ authUser' = c.walletAddress
  /\ isLoading' = FALSE
  /\ UNCHANGED <<cookies, mounted, loggedOut>>
  /\ UNCHANGED <<properties, user_shares, transactions, reqs, identity>>

\* verifyWallet: the call failed, the cookie is removed
VerifyWalletFails(c) ==
  /\ c \in calls /\ c.op = "verifyWallet"
  /\ calls' = calls \ {c}
  /\ cookies' = [cookies EXCEPT !.walletAddress = "none"]
  /\ authUser' = "null"
  /\ isLoading' = FALSE
  /\ UNCHANGED <<mounted, loggedOut>>
  /\ UNCHANGED <<properties, user_shares, transactions, reqs, identity>>

\* logout: Cookies.remove('token'); setUser(null)
logout ==
  /\ mounted
  /\ cookies' = [cookies EXCEPT !.token = "none"]
  /\ authUser' = "null"
  /\ loggedOut' = TRUE
  /\ UNCHANGED <<isLoading, calls, mounted>>
  /\ UNCHANGED <<properties, user_shares, transactions, reqs, identity>>

\* connectWallet: the wallet gives an account, the cookie is set, the backend is called
connectWallet ==
  \E w \in Wallets :
    /\ mounted
    /\ Cardinality(calls) < MaxCalls
    /\ cookies' = [cookies EXCEPT !.walletAddress = w]
    /\ loggedOut' = FALSE
    /\ calls' = calls \cup {[op |-> "connectWallet", walletAddress |-> w, sinceLogout |-> FALSE]}
    /\ UNCHANGED <<authUser, isLoading, mounted>>
    /\ UNCHANGED <<properties, user_shares, transactions, reqs, identity>>

\* connectWallet: the backend answered with the profile
ConnectWalletOk(c) ==
  /\ c \in calls /\ c.op = "connectWallet"
  /\ calls' = calls \ {c}
  /\ authUser' = c.walletAddress
  /\ UNCHANGED <<isLoading, cookies, mounted, loggedOut>>
  /\ UNCHANGED <<properties, user_shares, transactions, reqs, identity>>

\* connectWallet: the call failed; a toast, the error is rethrown
ConnectWalletFails(c) ==
  /\ c \in calls /\ c.op = "connectWallet"
  /\ calls' = calls \ {c}
  /\ UNCHANGED <<authUser, isLoading, cookies, mounted, loggedOut>>
  /\ UNCHANGED <<properties, user_shares, transactions, reqs, identity>>

BrowserNext ==
  \/ Mount
  \/ Unmount
  \/ \E c \in calls : VerifyWalletOk(c)
  \/ \E c \in calls : VerifyWalletFails(c)
  \/ logout
  \/ connectWallet
  \/ \E c \in calls : ConnectWalletOk(c)
  \/ \E c \in calls : ConnectWalletFails(c)

BrowserSpec == Init /\ [][BrowserNext]_vars

\* C23: after logout and before the next connectWallet, the response
\* to a verification started by a later mount of AuthProvider leaves user null.
C23_LogoutEndsSession ==
  [][\A c \in calls :
       ( /\ loggedOut /\ loggedOut'
         /\ c.op = "verifyWallet" /\ c.sinceLogout
         /\ calls' = calls \ {c} /\ mounted' )
       => authUser' = "null"]_vars
====
